---- MODULE Spec2Model ----
(***************************************************************************)
(* Model of aiocoap/transports/simple6.py: the client-only UDP transport   *)
(* made of _Connection (one connected datagram socket), the pool           *)
(* _DatagramSocketpoolSimple6 (factory and registry) and                   *)
(* TransportEndpointSimple6 (the facade the protocol engine talks to).     *)
(*                                                                         *)
(* Everything runs on one asyncio event loop: an action of this model is   *)
(* the code that runs between two suspension points of a coroutine, or one *)
(* callback the loop delivers to a protocol object.                        *)
(*                                                                         *)
(* Conventions: text is a sequence of one-character strings; the Python    *)
(* value None is the text None below, the scheme NoScheme or the port      *)
(* NoPort; a Python attribute that has been deleted (del self.x) is a      *)
(* FALSE / 0 field.                                                        *)
(***************************************************************************)
EXTENDS Naturals, Integers, Sequences, FiniteSets, TLC

\* ------------------------------------------------------------- bounds
MaxCalls == 2        \* determine_remote calls made by the engine
MaxEvents == 2       \* socket events that reach the engine or the log
MaxRemoteLen == 3    \* length of an unresolved_remote text

\* ------------------------------------------------------------- constants
COAP_PORT == 5683

None == <<"None">>
NoScheme == "None"
NoPort == -1
PortError == -2      \* SplitResult.port raised ValueError

\* ------------------------------------------------------------- text helpers
Digits == {"0", "7"}
Alphabet == {"A", ":"} \cup Digits

DigitValue(ch) == IF ch = "7" THEN 7 ELSE 0

lower(ch) == IF ch = "A" THEN "a" ELSE ch

RECURSIVE find(_, _, _)
\* index of the first occurrence of sep in s at or after i, 0 when there is none
find(s, sep, i) ==
    IF i > Len(s) THEN 0
    ELSE IF s[i] = sep THEN i
    ELSE find(s, sep, i + 1)

\* str.partition(sep): <<head, tail>>; the tail is empty when sep is absent
partition(s, sep) ==
    LET i == find(s, sep, 1)
    IN IF i = 0 THEN <<s, <<>>>>
       ELSE <<SubSeq(s, 1, i - 1), SubSeq(s, i + 1, Len(s))>>

RECURSIVE int10(_)
\* int(text, 10) of a text of digits
int10(s) ==
    IF Len(s) = 0 THEN 0
    ELSE 10 * int10(SubSeq(s, 1, Len(s) - 1)) + DigitValue(s[Len(s)])

isdigit(s) == Len(s) > 0 /\ \A i \in 1..Len(s) : s[i] \in Digits

\* urllib.parse.SplitResult(None, netloc, ...).hostname
hostname(netloc) ==
    LET h == partition(netloc, ":")[1]
    IN IF Len(h) = 0 THEN None ELSE [i \in 1..Len(h) |-> lower(h[i])]

\* urllib.parse.SplitResult(None, netloc, ...).port
port(netloc) ==
    LET p == partition(netloc, ":")[2]
    IN IF Len(p) = 0 THEN NoPort
       ELSE IF isdigit(p) /\ int10(p) <= 65535 THEN int10(p)
       ELSE PortError

\* ------------------------------------------------------------- codec (external)
Payloads == {1, 2}
Datagrams == [version : {1, 2}, payload : Payloads]

\* Message.encode(): the wire form of a message
Encode(payload) == [version |-> 1, payload |-> payload]

\* Message.decode(datagram) raises UnparsableMessage on a malformed datagram
Unparsable(datagram) == datagram.version # 1

Decode(datagram) == datagram.payload

NoDatagram == [version |-> 0, payload |-> 0]

\* ------------------------------------------------------------- requests
\* What determine_remote reads of a message: request.requested_scheme,
\* request.unresolved_remote, request.opt.uri_host, request.opt.uri_port.
Request(scheme, remote, host, p) ==
    [requested_scheme |-> scheme, unresolved_remote |-> remote,
     uri_host |-> host, uri_port |-> p]

NoRequest == Request(NoScheme, None, None, NoPort)

Target(kind, host, p) == [kind |-> kind, host |-> host, port |-> p]

\* Python's "value or COAP_PORT": None and 0 are both falsy
port_or_default(p) == IF p = NoPort \/ p = 0 THEN COAP_PORT ELSE p

\* Mutant: the scheme test also lets the secured scheme through.
determine_remote_scheme_ok_Mutant(request) ==
    request.requested_scheme \in {"coap", "coaps", NoScheme}

\* determine_remote, line 177: request.requested_scheme in ('coap', None)
determine_remote_scheme_ok(request) ==
    request.requested_scheme \in {"coap", NoScheme}

\* determine_remote up to its call of the pool's connect: what it returns or
\* raises by itself, or the sockaddr (host, port) it passes to connect.
determine_remote_target(request) ==
    IF ~determine_remote_scheme_ok(request)
    THEN Target("absent", None, NoPort)
    ELSE IF request.unresolved_remote # None
    THEN LET host == hostname(request.unresolved_remote)
             p == port(request.unresolved_remote)
         IN IF p = PortError
            THEN Target("ValueError", None, NoPort)
            ELSE Target("connect", host, port_or_default(p))
    ELSE IF request.uri_host # None /\ Len(request.uri_host) > 0
    THEN Target("connect", request.uri_host, port_or_default(request.uri_port))
    ELSE Target("ValueError", None, NoPort)

\* ------------------------------------------------------------- state
VARIABLES
    conns,    \* conns[i]: the _Connection constructed for call i (NoConn: none yet)
    calls,    \* the determine_remote calls (coroutines) ever started, in order
    pool,     \* _DatagramSocketpoolSimple6: its _sockets attribute
    ep,       \* TransportEndpointSimple6: its two callback references
    sd,       \* the TransportEndpointSimple6.shutdown coroutine
    engine,   \* the calls the engine's callbacks have received: which, and the
              \* payload or error code passed
    log,      \* number of warnings the log sink has received
    last      \* the operation that ran last and what it did

vars == <<conns, calls, pool, ep, sd, engine, log, last>>

Range(q) == {q[k] : k \in 1..Len(q)}

CallIds == 1..Len(calls)
ConnIds == {c \in 1..Len(conns) : conns[c].stage # "none"}

\* No _Connection object has been constructed.
NoConn ==
    [stage |-> "none", ready_callback |-> 0, new_message_callback |-> FALSE,
     new_error_callback |-> FALSE, transport |-> "none",
     exc |-> 0,
     sockaddr |-> [host |-> None, port |-> NoPort],
     peername |-> [host |-> <<>>, port |-> NoPort]]

\* _Connection.__init__ for the connect call `call`
Connection_init(call, sockaddr, peerhost) ==
    [stage |-> "initializing",
     ready_callback |-> call,           \* lambda: ready.set_result(None)
     new_message_callback |-> TRUE,
     new_error_callback |-> TRUE,
     transport |-> "none",              \* "none" (no attribute), "open", "aborted"
                                        \* (connection_lost pending), "closed"
     exc |-> 0,                         \* the exception connection_lost is
                                        \* pending with, 0 for None
     sockaddr |-> sockaddr,             \* the address connect was given
     peername |-> [host |-> peerhost,   \* the address the socket is connected to
                   port |-> sockaddr.port]]

\* Mutant: connection_made keeps the reference to the ready callback.
Connection_connection_made_Mutant(c) ==
    [c EXCEPT !.transport = "open", !.stage = "active"]

\* _Connection.connection_made
Connection_connection_made(c) ==
    [c EXCEPT !.transport = "open", !.stage = "active", !.ready_callback = 0]

\* ------------------------------------------------------------- address interface
DigitChars == <<"0", "1", "2", "3", "4", "5", "6", "7", "8", "9">>

RECURSIVE str10(_)
\* "%d" % n for n >= 0
str10(n) ==
    IF n < 10 THEN <<DigitChars[n + 1]>>
    ELSE str10(n \div 10) \o <<DigitChars[(n % 10) + 1]>>

\* aiocoap.util.hostportjoin(host, port): "host" or "host:port", the host in
\* brackets when it is an address with colons
hostportjoin(host, p) ==
    LET h == IF find(host, ":", 1) # 0 THEN <<"[">> \o host \o <<"]">> ELSE host
    IN IF p = NoPort THEN h ELSE h \o <<":">> \o str10(p)

\* ---- numeric IPv6 addresses: socket.inet_pton / inet_ntop, as the resolver
\* and getpeername apply them
HexChars == <<"0", "1", "2", "3", "4", "5", "6", "7", "8", "9",
              "a", "b", "c", "d", "e", "f">>
UpperHex == <<"A", "B", "C", "D", "E", "F">>

ishex(ch) == ch \in Range(HexChars) \cup Range(UpperHex)

HexValue(ch) ==
    IF ch \in Range(HexChars)
    THEN (CHOOSE k \in 1..16 : HexChars[k] = ch) - 1
    ELSE (CHOOSE k \in 1..6 : UpperHex[k] = ch) + 9

RECURSIVE int16(_)
int16(s) ==
    IF Len(s) = 0 THEN 0
    ELSE 16 * int16(SubSeq(s, 1, Len(s) - 1)) + HexValue(s[Len(s)])

RECURSIVE str16(_)
\* "%x" % n
str16(n) ==
    IF n < 16 THEN <<HexChars[n + 1]>>
    ELSE str16(n \div 16) \o <<HexChars[(n % 16) + 1]>>

RECURSIVE split(_, _)
\* str.split(sep) for a one-character separator
split(s, sep) ==
    IF find(s, sep, 1) = 0 THEN <<s>>
    ELSE <<partition(s, sep)[1]>> \o split(partition(s, sep)[2], sep)

\* the groups of one side of "::", none for an empty side
Groups(s) == IF Len(s) = 0 THEN <<>> ELSE split(s, ":")

IsGroup(g) == Len(g) \in 1..4 /\ \A k \in 1..Len(g) : ishex(g[k])

\* index of the first "::" in s, 0 when there is none
FindGap(s) ==
    LET at == {k \in 1..(Len(s) - 1) : s[k] = ":" /\ s[k + 1] = ":"}
    IN IF at = {} THEN 0 ELSE CHOOSE k \in at : \A m \in at : k <= m

\* <<high, low>> halves (16 bits each) of the number the digits s spell in
\* the given base; a high half of 65536 stands for every number of 2^32 and
\* above
RECURSIVE Number(_, _)
Number(s, base) ==
    IF Len(s) = 0 THEN <<0, 0>>
    ELSE LET n == Number(SubSeq(s, 1, Len(s) - 1), base)
             low == n[2] * base + HexValue(s[Len(s)])
             high == n[1] * base + (low \div 65536)
         IN <<IF high > 65535 THEN 65536 ELSE high, low % 65536>>

isdecimal(s) == \A k \in 1..Len(s) : s[k] \in Range(DigitChars)

\* one number of a dotted quad: decimal, at most 255, no leading zero
IsOctet(g) ==
    /\ Len(g) \in 1..3
    /\ isdecimal(g)
    /\ Len(g) > 1 => g[1] # "0"
    /\ Number(g, 10)[2] <= 255

\* inet_pton(AF_INET, text): the four bytes, or <<>> when the text is no
\* dotted quad
inet_pton4(s) ==
    LET p == split(s, ".")
    IN IF Len(p) = 4 /\ \A k \in 1..4 : IsOctet(p[k])
       THEN [k \in 1..4 |-> Number(p[k], 10)[2]]
       ELSE <<>>

\* inet_pton(AF_INET6, text): the eight 16-bit words, or <<>> when the text is
\* no IPv6 address. The last group of the text may be a dotted quad, which
\* stands for two words.
inet_pton6(s) ==
    LET gap == FindGap(s)
        left == IF gap = 0 THEN Groups(s) ELSE Groups(SubSeq(s, 1, gap - 1))
        right == IF gap = 0 THEN <<>> ELSE Groups(SubSeq(s, gap + 2, Len(s)))
        groups == left \o right
        dotted == /\ Len(groups) > 0
                  /\ gap = 0 \/ Len(right) > 0
                  /\ find(groups[Len(groups)], ".", 1) # 0
        quad == inet_pton4(groups[Len(groups)])
        hexes == IF dotted THEN SubSeq(groups, 1, Len(groups) - 1) ELSE groups
        nleft == IF dotted /\ Len(right) = 0 THEN Len(left) - 1 ELSE Len(left)
        n == Len(hexes) + (IF dotted THEN 2 ELSE 0)
        valid == /\ \A k \in 1..Len(hexes) : IsGroup(hexes[k])
                 /\ dotted => quad # <<>>
                 /\ IF gap = 0 THEN n = 8 ELSE n <= 7
        words == [k \in 1..Len(hexes) |-> int16(hexes[k])]
                    \o (IF dotted THEN <<quad[1] * 256 + quad[2], quad[3] * 256 + quad[4]>>
                        ELSE <<>>)
    IN IF ~valid THEN <<>>
       ELSE [k \in 1..8 |->
               IF k <= nleft THEN words[k]
               ELSE IF k > 8 - (n - nleft) THEN words[k - (8 - n)]
               ELSE 0]

\* length of the run of zero words of w that starts at k
RECURSIVE ZeroRun(_, _)
ZeroRun(w, k) ==
    IF k > 8 \/ w[k] # 0 THEN 0 ELSE 1 + ZeroRun(w, k + 1)

\* the first longest run of two or more zero words: <<start, length>>,
\* <<0, 0>> without one
BestRun(w) ==
    LET len == [k \in 1..8 |-> ZeroRun(w, k)]
        runs == {k \in 1..8 : len[k] >= 2}
    IN IF runs = {} THEN <<0, 0>>
       ELSE LET b == CHOOSE k \in runs :
                       \A m \in runs : (len[k] > len[m])
                                        \/ (len[k] = len[m] /\ k <= m)
            IN <<b, len[b]>>

\* inet_ntop(AF_INET, ...) of the last two words
DottedQuad(w) ==
    str10(w[7] \div 256) \o <<".">> \o str10(w[7] % 256) \o <<".">>
        \o str10(w[8] \div 256) \o <<".">> \o str10(w[8] % 256)

RECURSIVE ntop6_from(_, _, _)
\* the text of words k..8, best being the run of zero words that "::" stands for
ntop6_from(w, best, k) ==
    LET inrun == best[1] # 0 /\ k >= best[1] /\ k < best[1] + best[2]
        encapsulated == /\ k = 7 /\ best[1] = 1
                        /\ (best[2] = 6 \/ (best[2] = 5 /\ w[6] = 65535))
    IN IF k > 8
       THEN IF best[1] # 0 /\ best[1] + best[2] = 9 THEN <<":">> ELSE <<>>
       ELSE IF inrun
       THEN (IF k = best[1] THEN <<":">> ELSE <<>>) \o ntop6_from(w, best, k + 1)
       ELSE (IF k # 1 THEN <<":">> ELSE <<>>)
                \o (IF encapsulated THEN DottedQuad(w)
                    ELSE str16(w[k]) \o ntop6_from(w, best, k + 1))

\* inet_ntop(AF_INET6, words)
inet_ntop6(w) ==
    LET best == BestRun(w)
    IN ntop6_from(w, best, 1)

\* one number of the numbers-and-dots notation of an IPv4 address, as strtoul
\* reads it with base 0: 0x and hexadecimal digits, 0 and octal digits, or
\* decimal digits without a leading 0
IsPart(g) ==
    IF Len(g) >= 2 /\ g[1] = "0" /\ g[2] \in {"x", "X"}
    THEN Len(g) >= 3 /\ \A k \in 3..Len(g) : ishex(g[k])
    ELSE IF Len(g) >= 1 /\ g[1] = "0"
    THEN \A k \in 1..Len(g) : g[k] \in {"0", "1", "2", "3", "4", "5", "6", "7"}
    ELSE Len(g) >= 1 /\ isdecimal(g)

PartValue(g) ==
    IF Len(g) >= 2 /\ g[2] \in {"x", "X"} THEN Number(SubSeq(g, 3, Len(g)), 16)
    ELSE IF g[1] = "0" THEN Number(g, 8)
    ELSE Number(g, 10)

\* getaddrinfo takes the whole text for an IPv4 address in numbers-and-dots
\* notation (inet_aton's a, a.b, a.b.c or a.b.c.d: every number but the last
\* is one byte, the last fills the bytes that remain): an address that has no
\* AF_INET6 form
IsIPv4Number(s) ==
    LET p == split(s, ".")
        last_high == CASE Len(p) = 1 -> 65535
                       [] Len(p) = 2 -> 255
                       [] OTHER -> 0
        last_low == IF Len(p) = 4 THEN 255 ELSE 65535
    IN /\ Len(p) <= 4
       /\ \A k \in 1..Len(p) : IsPart(p[k])
       /\ \A k \in 1..(Len(p) - 1) :
              PartValue(p[k])[1] = 0 /\ PartValue(p[k])[2] <= 255
       /\ PartValue(p[Len(p)])[1] <= last_high
       /\ PartValue(p[Len(p)])[2] <= last_low

Loopback == <<":", ":", "1">>

Letters ==
    {"a", "b", "c", "d", "e", "f", "g", "h", "i", "j", "k", "l", "m",
     "n", "o", "p", "q", "r", "s", "t", "u", "v", "w", "x", "y", "z",
     "A", "B", "C", "D", "E", "F", "G", "H", "I", "J", "K", "L", "M",
     "N", "O", "P", "Q", "R", "S", "T", "U", "V", "W", "X", "Y", "Z"}

\* The text is one the resolver looks up as a host name.
IsHostName(s) ==
    /\ Len(s) \in 1..253
    /\ \A k \in 1..Len(s) : s[k] \in Letters \cup Range(DigitChars) \cup {"-", "_", "."}
    /\ s[1] # "-"

\* str.encode('idna') of an ASCII host raises UnicodeError: a label before
\* the last is empty, or a label is longer than 63 characters
idna_fails(host) ==
    LET labels == split(host, ".")
    IN \/ \E k \in 1..(Len(labels) - 1) : Len(labels[k]) = 0
       \/ \E k \in 1..Len(labels) : Len(labels[k]) > 63

\* The address records of the names of the environment: the name b has two,
\* every other name one.
NameService(name) ==
    IF name = <<"b">> THEN {<<"7", ":", ":", "7">>, <<"7", ":", ":">>}
    ELSE {<<"7", ":", ":", "7">>}

\* The network interfaces of the environment, by name
Interfaces == {<<"l", "o">>}

\* The zone after the % of a scoped address names a scope: the number of one
\* (below 2^32), or, for a link-local address or a multicast address of
\* interface or link scope, the name of an interface.
IsScope(words, zone) ==
    \/ /\ Len(zone) > 0 /\ isdecimal(zone)
       /\ Number(zone, 10)[1] <= 65535
    \/ /\ zone \in Interfaces
       /\ \/ (words[1] \div 64) = 1018                           \* fe80::/10
          \/ (words[1] \div 256) = 255 /\ (words[1] % 16) \in {1, 2}   \* ffx1::/16, ffx2::/16

\* loop.getaddrinfo(host, port, family=AF_INET6), as create_datagram_endpoint
\* calls it: the numeric addresses the socket may get connected to. No host
\* (or "*") is the loopback address, an IPv6 address is itself in canonical
\* form, with or without a zone, an IPv4 address has none (gaierror), a name
\* has its address records, and any other text has none.
getaddrinfo(host) ==
    LET address == partition(host, "%")[1]
        zone == partition(host, "%")[2]
    IN IF host = None \/ host = <<"*">> THEN {Loopback}
       ELSE IF find(host, "%", 1) # 0
       THEN IF inet_pton6(address) # <<>> /\ IsScope(inet_pton6(address), zone)
            THEN {inet_ntop6(inet_pton6(address))}
            ELSE {}
       ELSE IF inet_pton6(host) # <<>> THEN {inet_ntop6(inet_pton6(host))}
       ELSE IF IsIPv4Number(host) THEN {}
       ELSE IF IsHostName(host) THEN NameService(host)
       ELSE {}

\* sock.connect(address): the address the socket is connected to. The system
\* connects a socket whose destination is the unspecified address, :: or its
\* IPv4-mapped form, to the loopback address.
connect(address) ==
    LET words == inet_pton6(address)
    IN IF words = <<0, 0, 0, 0, 0, 0, 0, 0>> THEN Loopback
       ELSE IF words = <<0, 0, 0, 0, 0, 65535, 0, 0>>
       THEN inet_ntop6(<<0, 0, 0, 0, 0, 65535, 32512, 1>>)
       ELSE inet_ntop6(words)

\* socket.getpeername() of the connected socket: the numeric address and the
\* port the socket was connected to
getpeername(c) ==
    c.peername

\* _Connection.port
Connection_port(c) ==
    getpeername(c).port

\* Mutant: the port is never left out.
Connection_hostinfo_Mutant(c) ==
    hostportjoin(getpeername(c).host, Connection_port(c))

\* _Connection.hostinfo
Connection_hostinfo(c) ==
    LET host == getpeername(c).host
        p == IF Connection_port(c) = COAP_PORT THEN NoPort ELSE Connection_port(c)
    IN hostportjoin(host, p)

\* transport.abort(): the transport stops reading and writing and schedules
\* connection_lost(None); on a transport that has failed or was aborted
\* before (its connection_lost still pending, with the exception it was
\* scheduled with) and on one already lost it does nothing.
abort(transport) ==
    IF transport = "closed" THEN "closed" ELSE "aborted"

\* Mutant: shutdown releases the socket but keeps the callback references.
Connection_shutdown_Mutant(c) ==
    IF c.transport = "none"
    THEN [c EXCEPT !.stage = "shutting down"]
    ELSE [c EXCEPT !.stage = "destroyed", !.transport = abort(@)]

\* _Connection.shutdown: runs to its end without suspending; a missing
\* attribute raises AttributeError at that line and leaves the rest undone.
Connection_shutdown(c) ==
    IF c.transport = "none"
    THEN [c EXCEPT !.stage = "shutting down"]
    ELSE IF ~c.new_message_callback
    THEN [c EXCEPT !.stage = "shutting down", !.transport = abort(@)]
    ELSE IF ~c.new_error_callback
    THEN [c EXCEPT !.stage = "shutting down", !.transport = abort(@),
                   !.new_message_callback = FALSE]
    ELSE [c EXCEPT !.stage = "destroyed", !.transport = abort(@),
                   !.new_message_callback = FALSE, !.new_error_callback = FALSE]

NoLast ==
    [op |-> "init", conn |-> 0, call |-> 0, request |-> NoRequest,
     stage_at |-> "none", conn_cb |-> "none", engine_cb |-> "none",
     raised |-> "none", logged |-> 0, delivered |-> <<>>,
     sendto |-> <<>>,        \* the sendto calls a send made on its transport
     written |-> <<>>,       \* the datagrams the socket was handed
     errno |-> 0,            \* the exception of an error event: its error
                             \* code, NoErrno when it has none, 0 for None
     payload |-> 0,          \* the payload of the message handed to send,
                             \* or of the sent message a datagram event echoes
     data |-> NoDatagram,    \* the datagram a datagram event carried
     text |-> <<>>]          \* the text an address accessor returned

Init ==
    /\ conns = <<>>
    /\ calls = <<>>
    /\ pool = [has_sockets |-> TRUE, sockets |-> <<>>]
    /\ ep = [new_message_callback |-> TRUE, new_error_callback |-> TRUE]
    /\ sd = [pc |-> "idle", members |-> {}, pending |-> {}]
    /\ engine = <<>>
    /\ log = 0
    /\ last = NoLast

\* ------------------------------------------------------------- determine_remote / connect
NoAddr == [host |-> None, port |-> NoPort]

Call(pc, sockaddr, protocol, ready, result) ==
    [pc |-> pc,             \* "connecting", "endpoint_wait", "done"
     sockaddr |-> sockaddr, \* the (host, port) passed to the pool's connect
     protocol |-> protocol, \* the _Connection of this call, 0 when none
     ready |-> ready,       \* the Future `ready` of connect has its result
     result |-> result]     \* "none", "absent", "connection", or the exception raised

\* TransportEndpointSimple6.determine_remote up to its first suspension: it
\* returns None, raises ValueError, or enters the pool's connect, which
\* suspends in loop.create_datagram_endpoint (address resolution).
determine_remote(request) ==
    LET t == determine_remote_target(request)
    IN /\ calls' = Append(calls,
                      IF t.kind = "connect"
                      THEN Call("connecting", [host |-> t.host, port |-> t.port], 0, FALSE, "none")
                      ELSE Call("done", NoAddr, 0, FALSE, t.kind))
       /\ conns' = Append(conns, NoConn)
       /\ last' = [NoLast EXCEPT !.op = "determine_remote", !.call = Len(calls) + 1,
                                 !.request = request]
       /\ UNCHANGED <<pool, ep, sd, engine, log>>

\* Mutant: connect hands out a registered connection to the same sockaddr
\* again instead of constructing one.
pool_connect_protocol_Mutant(i) ==
    LET same == {c \in Range(pool.sockets) : conns[c].sockaddr = calls[i].sockaddr}
    IN IF same # {} THEN CHOOSE c \in same : TRUE ELSE i

\* connect, lines 144-147: the protocol factory constructs a new
\* _Connection, with a socket of its own, for every call
pool_connect_protocol(i) ==
    i

\* The resolver did not answer, or no address could be connected to.
NoAddress == <<>>

\* The addresses create_datagram_endpoint may find for the host; the host
\* text that cannot be encoded has none, and the resolver is not asked.
Addresses(host) ==
    IF host # None /\ idna_fails(host) THEN {} ELSE getaddrinfo(host)

\* The exception create_datagram_endpoint raises when it fails
EndpointError(host) ==
    IF host # None /\ idna_fails(host) THEN "UnicodeError" ELSE "OSError"

\* loop.create_datagram_endpoint resolves the host, connects a socket to one
\* of its addresses and calls the protocol factory, or raises: UnicodeError
\* for a host text that cannot be encoded, OSError otherwise (no address, no
\* route). Then connect raises it and no _Connection exists.
CreateEndpoint(i) ==
    /\ i \in CallIds
    /\ calls[i].pc = "connecting"
    /\ \E address \in {NoAddress} \cup Addresses(calls[i].sockaddr.host) :
         IF address # NoAddress
         THEN /\ conns' = IF pool_connect_protocol(i) = i
                          THEN [conns EXCEPT ![i] =
                                   Connection_init(i, calls[i].sockaddr,
                                                   connect(address))]
                          ELSE conns
              /\ calls' = [calls EXCEPT ![i].pc = "endpoint_wait",
                                        ![i].protocol = pool_connect_protocol(i),
                                        ![i].ready = (pool_connect_protocol(i) # i)]
              /\ last' = [NoLast EXCEPT !.op = "create_endpoint", !.call = i,
                                        !.conn = pool_connect_protocol(i)]
         ELSE /\ conns' = conns
              /\ calls' = [calls EXCEPT ![i].pc = "done",
                                        ![i].result = EndpointError(calls[i].sockaddr.host)]
              /\ last' = [NoLast EXCEPT !.op = "create_endpoint", !.call = i,
                                        !.raised = EndpointError(calls[i].sockaddr.host)]
    /\ UNCHANGED <<pool, ep, sd, engine, log>>

\* The loop calls connection_made on a new protocol: the ready callback sets
\* the result of the Future the connect call waits for.
ConnectionMade(c) ==
    /\ c \in ConnIds
    /\ conns[c].stage = "initializing"
    /\ conns' = [conns EXCEPT ![c] = Connection_connection_made(@)]
    /\ calls' = [calls EXCEPT ![conns[c].ready_callback].ready = TRUE]
    /\ last' = [NoLast EXCEPT !.op = "connection_made", !.conn = c,
                              !.call = conns[c].ready_callback,
                              !.stage_at = conns[c].stage]
    /\ UNCHANGED <<pool, ep, sd, engine, log>>

\* Mutant: connect returns the protocol without registering it.
pool_connect_register_Mutant(p, c) ==
    p

\* connect, line 152: self._sockets.append(protocol)
pool_connect_register(p, c) ==
    [p EXCEPT !.sockets = Append(@, c)]

\* Mutant: connect does not wait for the ready signal.
pool_connect_can_resume_Mutant(call) ==
    TRUE

\* connect, lines 144-148: create_datagram_endpoint has returned and
\* `yield from ready` has its result; both need connection_made to have run
pool_connect_can_resume(call) ==
    call.ready

\* connect resumes after create_datagram_endpoint and `yield from ready`:
\* it appends the protocol to self._sockets and returns it; with the
\* attribute deleted by shutdown the append raises AttributeError.
ConnectResume(i) ==
    /\ i \in CallIds
    /\ calls[i].pc = "endpoint_wait"
    /\ pool_connect_can_resume(calls[i])
    /\ IF pool.has_sockets
       THEN /\ pool' = pool_connect_register(pool, calls[i].protocol)
            /\ calls' = [calls EXCEPT ![i].pc = "done", ![i].result = "connection"]
            /\ last' = [NoLast EXCEPT !.op = "connect_return", !.call = i,
                                      !.conn = calls[i].protocol]
       ELSE /\ pool' = pool
            /\ calls' = [calls EXCEPT ![i].pc = "done", ![i].result = "AttributeError"]
            /\ last' = [NoLast EXCEPT !.op = "connect_return", !.call = i,
                                      !.conn = calls[i].protocol,
                                      !.raised = "AttributeError"]
    /\ UNCHANGED <<conns, ep, sd, engine, log>>

\* ------------------------------------------------------------- inbound dispatch
Errnos == {111}

\* An exception that is no OSError (a MemoryError, say): it has no errno
\* attribute. An exception is written as its error code, None as 0.
NoErrno == -1

Outcome(conn_cb, engine_cb, raised, logged, delivered) ==
    [conn_cb |-> conn_cb,       \* the _Connection callback that was invoked
     engine_cb |-> engine_cb,   \* the engine callback that was invoked
     raised |-> raised,         \* the exception the handler ended with
     logged |-> logged,         \* warnings written to the log
     delivered |-> delivered]   \* the engine callback's arguments

\* Mutant: an unparsable datagram is reported to the engine as an error.
received_datagram_Mutant(address, datagram) ==
    IF Unparsable(datagram)
    THEN Outcome("message", "error", "none", 0,
                 <<[cb |-> "error", conn |-> address, arg |-> 0]>>)
    ELSE IF ep.new_message_callback
    THEN Outcome("message", "message", "none", 0,
                 <<[cb |-> "message", conn |-> address, arg |-> Decode(datagram)]>>)
    ELSE Outcome("message", "none", "TypeError", 0, <<>>)

\* Mutant: the message is decoded without its remote.
received_datagram_NoRemote_Mutant(address, datagram) ==
    IF Unparsable(datagram)
    THEN Outcome("message", "none", "none", 1, <<>>)
    ELSE IF ep.new_message_callback
    THEN Outcome("message", "message", "none", 0,
                 <<[cb |-> "message", conn |-> 0, arg |-> Decode(datagram)]>>)
    ELSE Outcome("message", "none", "TypeError", 0, <<>>)

\* Mutant: a datagram equal to the one delivered last is taken for a
\* duplicate and dropped.
received_datagram_Dedup_Mutant(address, datagram) ==
    IF Unparsable(datagram)
    THEN Outcome("message", "none", "none", 1, <<>>)
    ELSE IF ep.new_message_callback
    THEN IF engine # <<>> /\ engine[Len(engine)] = [cb |-> "message", arg |-> Decode(datagram)]
         THEN Outcome("message", "none", "none", 0, <<>>)
         ELSE Outcome("message", "message", "none", 0,
                      <<[cb |-> "message", conn |-> address, arg |-> Decode(datagram)]>>)
    ELSE Outcome("message", "none", "TypeError", 0, <<>>)

\* TransportEndpointSimple6._received_datagram(address, datagram)
received_datagram(address, datagram) ==
    IF Unparsable(datagram)
    THEN Outcome("message", "none", "none", 1, <<>>)
    ELSE IF ep.new_message_callback
    THEN Outcome("message", "message", "none", 0,
                 <<[cb |-> "message", conn |-> address, arg |-> Decode(datagram)]>>)
    ELSE Outcome("message", "none", "TypeError", 0, <<>>)  \* None is not callable

\* TransportEndpointSimple6._received_exception(address, exception):
\* exception.errno is evaluated before the engine's callback is called, and
\* raises AttributeError on an exception that has none
received_exception(address, errno) ==
    IF errno = NoErrno
    THEN Outcome("error", "none", "AttributeError", 0, <<>>)
    ELSE IF ep.new_error_callback
    THEN Outcome("error", "error", "none", 0,
                 <<[cb |-> "error", conn |-> address, arg |-> errno]>>)
    ELSE Outcome("error", "none", "TypeError", 0, <<>>)

\* _Connection.datagram_received: self._new_message_callback(self, data)
Connection_datagram_received(c, data) ==
    IF conns[c].new_message_callback
    THEN received_datagram(c, data)
    ELSE Outcome("none", "none", "AttributeError", 0, <<>>)

\* _Connection.error_received: self._new_error_callback(self, exception)
Connection_error_received(c, errno) ==
    IF conns[c].new_error_callback
    THEN received_exception(c, errno)
    ELSE Outcome("none", "none", "AttributeError", 0, <<>>)

\* _Connection.connection_lost: nothing for None (0 here); any exception is
\* handed to the error callback
Connection_connection_lost(c, errno) ==
    IF errno = 0
    THEN Outcome("none", "none", "none", 0, <<>>)
    ELSE Connection_error_received(c, errno)

\* The effect of one socket event on connection c
Dispatch(op, c, out, data, errno, echoed) ==
    /\ engine' = engine \o [k \in 1..Len(out.delivered) |->
                               [cb |-> out.delivered[k].cb, arg |-> out.delivered[k].arg]]
    /\ log' = log + out.logged
    /\ last' = [NoLast EXCEPT !.op = op, !.conn = c, !.stage_at = conns[c].stage,
                              !.conn_cb = out.conn_cb, !.engine_cb = out.engine_cb,
                              !.raised = out.raised, !.logged = out.logged,
                              !.delivered = out.delivered,
                              !.data = data, !.errno = errno,
                              !.payload = echoed]

\* A socket event that leaves the transport as it is
Deliver(op, c, out, data, errno, echoed) ==
    /\ Dispatch(op, c, out, data, errno, echoed)
    /\ UNCHANGED <<conns, calls, pool, ep, sd>>

\* One more event may reach the engine or the log.
EventBudget ==
    Len(engine) + log < MaxEvents

\* The loop reads the socket of a transport, and hands the protocol a
\* datagram or the socket's error, from connection_made until the transport
\* is aborted or fails; after that it calls connection_lost and nothing else.
CanReceive(c) ==
    /\ c \in ConnIds
    /\ conns[c].transport = "open"
    /\ EventBudget

\* The payload of the message whose datagram the peer sends back: `data`
\* arrives on c right after send wrote exactly `data` to c's socket and the
\* socket took it (0: the datagram is no echo).
EchoOf(c, data) ==
    IF last.op = "send" /\ last.errno = 0
        /\ last.written = <<[conn |-> c, data |-> data]>>
    THEN last.payload
    ELSE 0

DatagramReceived(c, data) ==
    /\ CanReceive(c)
    /\ Deliver(IF Unparsable(data) THEN "datagram_unparsable" ELSE "datagram",
               c, Connection_datagram_received(c, data), data, 0, EchoOf(c, data))

ErrorReceived(c, errno) ==
    /\ CanReceive(c)
    /\ Deliver("error_received", c, Connection_error_received(c, errno), NoDatagram, errno, 0)

\* The transport of c fails: reading or writing the socket raised an
\* exception that is no OSError (an OSError goes to error_received and the
\* transport lives on). The transport stops reading and writing at once and
\* schedules connection_lost(exception) for a later callback of the loop; the
\* protocol is not called yet.
FatalError(c) ==
    /\ c \in ConnIds
    /\ conns[c].transport = "open"
    /\ conns' = [conns EXCEPT ![c].transport = "aborted", ![c].exc = NoErrno]
    /\ last' = [NoLast EXCEPT !.op = "fatal_error", !.conn = c,
                              !.stage_at = conns[c].stage, !.errno = NoErrno]
    /\ UNCHANGED <<calls, pool, ep, sd, engine, log>>

\* The loop runs the callback that abort() or the failure of the transport
\* scheduled: it calls connection_lost, with None after abort() and with the
\* exception after a failure, and closes the socket. It runs once, whatever
\* has happened to the protocol in between. The exception of a failed
\* transport has no errno: the error callback of the Connection, when it
\* still has one, ends in AttributeError before the engine is called.
ConnectionLost(c, errno) ==
    /\ c \in ConnIds
    /\ conns[c].transport = "aborted"
    /\ errno = conns[c].exc
    /\ Dispatch("connection_lost", c, Connection_connection_lost(c, errno), NoDatagram, errno, 0)
    /\ conns' = [conns EXCEPT ![c].transport = "closed", ![c].exc = 0]
    /\ UNCHANGED <<calls, pool, ep, sd>>

\* ------------------------------------------------------------- address accessors
\* The engine reads connection.hostinfo; a protocol that has no _transport
\* yet raises AttributeError, a socket closed after connection_lost OSError.
\* The socket of an aborted transport is open until connection_lost has run.
Hostinfo(c) ==
    /\ c \in ConnIds
    /\ last' = [NoLast EXCEPT !.op = "hostinfo", !.conn = c,
                              !.stage_at = conns[c].stage,
                              !.raised = CASE conns[c].transport = "none" -> "AttributeError"
                                           [] conns[c].transport = "closed" -> "OSError"
                                           [] OTHER -> "none",
                              !.text = IF conns[c].transport \in {"open", "aborted"}
                                       THEN Connection_hostinfo(conns[c]) ELSE <<>>]
    /\ UNCHANGED <<conns, calls, pool, ep, sd, engine, log>>

\* ------------------------------------------------------------- send
\* Mutant: the datagram is handed to the transport a second time.
Connection_send_Mutant(c, data) ==
    <<[conn |-> c, data |-> data], [conn |-> c, data |-> data]>>

\* _Connection.send: self._transport.sendto(data, None), the sendto calls
\* it makes on the transport of c
Connection_send(c, data) ==
    <<[conn |-> c, data |-> data]>>

\* transport.sendto on the transport of c: the datagrams the socket is handed. A transport that was
\* aborted, has failed or has lost its connection drops them without a word.
sendto(c, datagrams) ==
    IF conns[c].transport = "open" THEN datagrams ELSE <<>>

\* TransportEndpointSimple6.send: message.remote.send(message.encode()),
\* for a message whose remote is the connection call i returned
\* The socket takes the datagram (errno 0) or raises the error pending on it
\* (an earlier datagram was refused): sendto then calls error_received at
\* once, inside send.
Send(i, payload, errno) ==
    /\ i \in CallIds
    /\ calls[i].result = "connection"
    /\ LET c == calls[i].protocol
           sent == Connection_send(c, Encode(payload))
           written == sendto(c, sent)
           out == IF errno = 0
                  THEN Outcome("none", "none", "none", 0, <<>>)
                  ELSE Connection_error_received(c, errno)
       IN /\ errno # 0 => (written # <<>> /\ EventBudget)
          /\ engine' = engine \o [k \in 1..Len(out.delivered) |->
                                     [cb |-> out.delivered[k].cb, arg |-> out.delivered[k].arg]]
          /\ last' = [NoLast EXCEPT !.op = "send", !.conn = c, !.call = i,
                                    !.stage_at = conns[c].stage,
                                    !.payload = payload,
                                    !.sendto = sent,
                                    !.written = written,
                                    !.errno = errno,
                                    !.conn_cb = out.conn_cb, !.engine_cb = out.engine_cb,
                                    !.raised = out.raised, !.delivered = out.delivered]
    /\ UNCHANGED <<conns, calls, pool, ep, sd, log>>

\* ------------------------------------------------------------- shutdown
\* Mutant: the sweep takes in every protocol constructed so far, the ones
\* still waiting for their socket included.
pool_shutdown_members_Mutant(p) ==
    Range(p.sockets) \cup ConnIds

\* pool shutdown, line 159: [s.shutdown() for s in self._sockets], evaluated
\* when shutdown is called
pool_shutdown_members(p) ==
    Range(p.sockets)

\* Mutant: the endpoint forgets to clear its callbacks.
endpoint_after_shutdown_Mutant(e) ==
    e

\* endpoint shutdown, lines 210-211: both callback references become None
endpoint_after_shutdown(e) ==
    [e EXCEPT !.new_message_callback = FALSE, !.new_error_callback = FALSE]

\* Mutant: the pool does not wait for the member shutdowns.
pool_shutdown_finished_Mutant(s) ==
    TRUE

\* asyncio.wait returns once every member shutdown task has finished
pool_shutdown_finished(s) ==
    s.pending = {}

\* Mutant: the pool empties its registry instead of deleting it.
ShutdownFinish_Mutant ==
    /\ pool' = [has_sockets |-> TRUE, sockets |-> <<>>]
    /\ ep' = endpoint_after_shutdown(ep)

\* `del self._sockets` and the rest of the endpoint's shutdown
ShutdownFinish ==
    /\ pool' = [has_sockets |-> FALSE, sockets |-> <<>>]
    /\ ep' = endpoint_after_shutdown(ep)

\* The engine calls TransportEndpointSimple6.shutdown (once). With an empty
\* registry nothing suspends; otherwise one task per registered connection
\* is started and the call suspends in asyncio.wait.
ShutdownCall ==
    /\ sd.pc = "idle"
    /\ pool.has_sockets
    /\ IF Len(pool.sockets) > 0
       THEN /\ sd' = [pc |-> "waiting", members |-> pool_shutdown_members(pool),
                      pending |-> pool_shutdown_members(pool)]
            /\ UNCHANGED <<pool, ep>>
       ELSE /\ sd' = [pc |-> "done", members |-> {}, pending |-> {}]
            /\ ShutdownFinish
    /\ last' = [NoLast EXCEPT !.op = "shutdown_call"]
    /\ UNCHANGED <<conns, calls, engine, log>>

\* One member task runs _Connection.shutdown to its end.
MemberShutdown(c) ==
    /\ sd.pc = "waiting"
    /\ c \in sd.pending
    /\ conns' = [conns EXCEPT ![c] = Connection_shutdown(@)]
    /\ sd' = [sd EXCEPT !.pending = @ \ {c}]
    /\ last' = [NoLast EXCEPT !.op = "member_shutdown", !.conn = c,
                              !.stage_at = conns[c].stage]
    /\ UNCHANGED <<calls, pool, ep, engine, log>>

\* asyncio.wait has returned: the pool deletes its registry, the endpoint
\* clears its callbacks, and shutdown returns.
ShutdownResume ==
    /\ sd.pc = "waiting"
    /\ pool_shutdown_finished(sd)
    /\ sd' = [sd EXCEPT !.pc = "done"]
    /\ ShutdownFinish
    /\ last' = [NoLast EXCEPT !.op = "shutdown_return"]
    /\ UNCHANGED <<conns, calls, engine, log>>

\* ------------------------------------------------------------- specifications
\* Every lifecycle specification has the steps the loop and the suspended
\* coroutines take by themselves (the endpoint is created, connection_made and
\* connection_lost are called, connect and shutdown resume, the member tasks
\* run); they differ in what the engine calls and what the sockets deliver.
\* Each resolves one destination; every call asks for the same host and port.
Requests ==
    { Request(NoScheme, None, <<"A">>, NoPort) }

DetermineRemote(request) ==
    /\ Len(calls) < MaxCalls
    /\ determine_remote(request)

\* The holder of a returned Connection calls its shutdown() itself; the
\* coroutine runs to its end, or to the line that raises, without suspending.
ConnectionShutdown(i) ==
    /\ i \in CallIds
    /\ calls[i].result = "connection"
    /\ conns' = [conns EXCEPT ![calls[i].protocol] = Connection_shutdown(@)]
    /\ last' = [NoLast EXCEPT !.op = "connection_shutdown", !.call = i,
                              !.conn = calls[i].protocol,
                              !.stage_at = conns[calls[i].protocol].stage,
                              !.raised = IF Connection_shutdown(conns[calls[i].protocol]).stage
                                            = "destroyed"
                                         THEN "none" ELSE "AttributeError"]
    /\ UNCHANGED <<calls, pool, ep, sd, engine, log>>

\* Inbound traffic: the sockets deliver datagrams and socket errors.
Next ==
    \/ \E r \in Requests : DetermineRemote(r)
    \/ \E i \in CallIds : CreateEndpoint(i)
    \/ \E c \in ConnIds : ConnectionMade(c)
    \/ \E i \in CallIds : ConnectResume(i)
    \/ \E c \in ConnIds, d \in Datagrams : DatagramReceived(c, d)
    \/ \E c \in ConnIds, e \in Errnos : ErrorReceived(c, e)
    \/ \E c \in ConnIds : ConnectionLost(c, conns[c].exc)
    \/ ShutdownCall
    \/ \E c \in ConnIds : MemberShutdown(c)
    \/ ShutdownResume

Spec == Init /\ [][Next]_vars

\* Outbound traffic and its echo: the engine sends, the sockets take every
\* datagram and deliver datagrams.
NextIO ==
    \/ \E r \in Requests : DetermineRemote(r)
    \/ \E i \in CallIds : CreateEndpoint(i)
    \/ \E c \in ConnIds : ConnectionMade(c)
    \/ \E i \in CallIds : ConnectResume(i)
    \/ \E c \in ConnIds, d \in Datagrams : DatagramReceived(c, d)
    \/ \E i \in CallIds, p \in Payloads : Send(i, p, 0)
    \/ \E c \in ConnIds : ConnectionLost(c, conns[c].exc)
    \/ ShutdownCall
    \/ \E c \in ConnIds : MemberShutdown(c)
    \/ ShutdownResume

SpecIO == Init /\ [][NextIO]_vars

\* Failures: the engine sends, the sockets raise errors, on their own and
\* inside send, and the transports fail.
NextErr ==
    \/ \E r \in Requests : DetermineRemote(r)
    \/ \E i \in CallIds : CreateEndpoint(i)
    \/ \E c \in ConnIds : ConnectionMade(c)
    \/ \E i \in CallIds : ConnectResume(i)
    \/ \E c \in ConnIds, e \in Errnos : ErrorReceived(c, e)
    \/ \E i \in CallIds, p \in Payloads, e \in {0} \cup Errnos : Send(i, p, e)
    \/ \E c \in ConnIds : FatalError(c)
    \/ \E c \in ConnIds : ConnectionLost(c, conns[c].exc)
    \/ ShutdownCall
    \/ \E c \in ConnIds : MemberShutdown(c)
    \/ ShutdownResume

SpecErr == Init /\ [][NextErr]_vars

\* Shutdown calls of the Connections' holders next to the pool's own, on
\* transports that may fail: the events a Connection that is being shut down
\* or was shut down can still get are the connection_lost calls.
NextSC ==
    \/ \E r \in Requests : DetermineRemote(r)
    \/ \E i \in CallIds : CreateEndpoint(i)
    \/ \E c \in ConnIds : ConnectionMade(c)
    \/ \E i \in CallIds : ConnectResume(i)
    \/ \E c \in ConnIds : FatalError(c)
    \/ \E c \in ConnIds : ConnectionLost(c, conns[c].exc)
    \/ \E i \in CallIds : ConnectionShutdown(i)
    \/ ShutdownCall
    \/ \E c \in ConnIds : MemberShutdown(c)
    \/ ShutdownResume

SpecSC == Init /\ [][NextSC]_vars

\* Every call and every event of the lifecycle specifications together
NextAll ==
    \/ \E r \in Requests : DetermineRemote(r)
    \/ \E i \in CallIds : CreateEndpoint(i)
    \/ \E c \in ConnIds : ConnectionMade(c)
    \/ \E i \in CallIds : ConnectResume(i)
    \/ \E c \in ConnIds, d \in Datagrams : DatagramReceived(c, d)
    \/ \E c \in ConnIds, e \in Errnos : ErrorReceived(c, e)
    \/ \E i \in CallIds, p \in Payloads, e \in {0} \cup Errnos : Send(i, p, e)
    \/ \E c \in ConnIds : FatalError(c)
    \/ \E c \in ConnIds : ConnectionLost(c, conns[c].exc)
    \/ \E i \in CallIds : ConnectionShutdown(i)
    \/ ShutdownCall
    \/ \E c \in ConnIds : MemberShutdown(c)
    \/ ShutdownResume

SpecAll == Init /\ [][NextAll]_vars

\* Destination resolution on its own: one determine_remote call on a fresh
\* endpoint, over every request within the bounds.
RECURSIVE Texts(_)
Texts(n) ==
    IF n = 0 THEN {<<>>}
    ELSE LET shorter == Texts(n - 1)
         IN shorter \cup {Append(t, ch) : t \in shorter, ch \in Alphabet}

AllRequests ==
    { Request(scheme, remote, host, p) :
        scheme \in {NoScheme, "coap", "coaps"},
        remote \in {None} \cup Texts(MaxRemoteLen),
        host \in {None, <<>>, <<"b">>},
        p \in {NoPort, 0, 7} }

\* The last call of a run resolves any request within the bounds; the calls
\* before it populate the registry.
PopulateRegistry ==
    /\ Len(calls) < MaxCalls - 1
    /\ \E r \in Requests : determine_remote(r)

ResolveRemote ==
    /\ Len(calls) = MaxCalls - 1
    /\ \E r \in AllRequests : determine_remote(r)

NextDR ==
    \/ PopulateRegistry
    \/ ResolveRemote
    \/ \E i \in CallIds : CreateEndpoint(i)
    \/ \E c \in ConnIds : ConnectionMade(c)
    \/ \E i \in CallIds : ConnectResume(i)
    \/ \E c \in ConnIds : Hostinfo(c)

SpecDR == Init /\ [][NextDR]_vars

\* ------------------------------------------------------------- properties
EventOps == {"datagram", "datagram_unparsable", "error_received", "connection_lost"}

Returned == {i \in CallIds : calls[i].result = "connection"}

\* The operation that ran last was a socket event, or a send the socket
\* answered with an error, and reached the engine.
EngineCalled == last.op \in EventOps \cup {"send"} /\ last.engine_cb # "none"

\* C1: after the endpoint's shutdown has completed, every Connection that a
\* determine_remote call returned is in stage destroyed, and a socket event
\* delivered afterwards to one of them invokes no engine callback.
C1_ReturnedConnectionsDestroyedAfterShutdown ==
    sd.pc = "done" =>
        /\ \A i \in Returned : conns[calls[i].protocol].stage = "destroyed"
        /\ ~EngineCalled

\* C2: every Connection that was created successfully (stage active: socket
\* bound, ready fired, not shut down) is in the pool's registry; when shutdown
\* is invoked the registry is exactly the set of Connections to shut down.
C2_RegistryIsTheLiveConnectionsAtShutdown ==
    /\ \A c \in ConnIds : conns[c].stage = "active" => c \in Range(pool.sockets)
    /\ last.op = "shutdown_call" =>
           sd.members = {c \in ConnIds : conns[c].stage = "active"}

\* Connection c has been shut down: it is destroyed, or its shutdown was
\* called once more after that and stopped in stage shutting down, the socket
\* released and both callbacks cleared all the same.
ShutDown(c) ==
    \/ conns[c].stage = "destroyed"
    \/ /\ conns[c].stage = "shutting down"
       /\ conns[c].transport \in {"aborted", "closed"}
       /\ ~conns[c].new_message_callback
       /\ ~conns[c].new_error_callback

\* C3 amended: the pool's shutdown starts the shutdown of every Connection
\* registered when it is called, returns only when the shutdown of each has
\* finished, clears the registry only then, and with an empty registry returns
\* at once, registry cleared. A member whose shutdown is its first ends in
\* stage destroyed; a member shut down before (by its holder) ends in stage
\* shutting down, its socket released and its callbacks cleared.
C3_PoolShutdownSweepsThenClearsShutDownOnce ==
    /\ (last.op = "shutdown_call" /\ sd.pc = "waiting") =>
           /\ sd.members = Range(pool.sockets)
           /\ sd.pending = sd.members
    /\ sd.pc = "waiting" =>
           /\ pool.has_sockets
           /\ sd.members # {}
           /\ sd.pending \subseteq sd.members
           /\ \A c \in sd.members \ sd.pending : ShutDown(c)
    /\ sd.pc = "done" <=> ~pool.has_sockets
    /\ sd.pc = "done" => \A c \in sd.members : ShutDown(c)
    /\ last.op = "member_shutdown" =>
           conns[last.conn].stage =
               IF last.stage_at = "active" THEN "destroyed" ELSE "shutting down"
    /\ (last.op = "shutdown_call" /\ sd.members = {}) =>
           sd.pc = "done" /\ ~pool.has_sockets

\* C3 as stated: the pool's shutdown starts the shutdown of every Connection
\* registered when it is called, returns only when all of them are destroyed,
\* clears the registry only then, and with an empty registry returns at once,
\* registry cleared.
C3_PoolShutdownSweepsThenClears ==
    /\ (last.op = "shutdown_call" /\ sd.pc = "waiting") =>
           /\ sd.members = Range(pool.sockets)
           /\ sd.pending = sd.members
    /\ sd.pc = "waiting" =>
           /\ pool.has_sockets
           /\ sd.members # {}
           /\ sd.pending \subseteq sd.members
           /\ \A c \in sd.members \ sd.pending : conns[c].stage = "destroyed"
    /\ sd.pc = "done" <=> ~pool.has_sockets
    /\ sd.pc = "done" => \A c \in sd.members : conns[c].stage = "destroyed"
    /\ (last.op = "shutdown_call" /\ sd.members = {}) =>
           sd.pc = "done" /\ ~pool.has_sockets

\* The pool's shutdown has returned from a sweep of two Connections: the
\* shutdown of one was its first, the other had been shut down by its holder.
C3_Witness ==
    /\ sd.pc = "done"
    /\ last.op = "shutdown_return"
    /\ Cardinality(sd.members) >= 2
    /\ \E c \in sd.members : conns[c].stage = "destroyed"
    /\ \E c \in sd.members : conns[c].stage = "shutting down"

\* C4 as stated: from the moment the endpoint's shutdown is invoked its
\* callbacks are cleared and no socket event reaches the engine.
C4_NoDispatchOnceShutdownInvoked ==
    sd.pc # "idle" =>
        /\ ~ep.new_message_callback
        /\ ~ep.new_error_callback
        /\ ~EngineCalled

\* C4 amended: once the endpoint's shutdown has completed its callbacks are
\* cleared and no socket event reaches the engine, on any Connection.
C4_NoDispatchOnceShutdownCompleted ==
    sd.pc = "done" =>
        /\ ~ep.new_message_callback
        /\ ~ep.new_error_callback
        /\ ~EngineCalled
        /\ last.op \in EventOps => last.delivered = <<>>

\* A datagram on a Connection the sweep missed, after shutdown: it reaches the
\* endpoint, which has no engine callback left.
C4_Witness ==
    /\ sd.pc = "done"
    /\ last.op = "datagram"
    /\ last.stage_at = "active"
    /\ last.conn_cb = "message"
    /\ last.raised = "TypeError"

\* C5: a socket event on a Connection whose shutdown has begun (stage shutting
\* down or destroyed) invokes neither its message nor its error callback, and
\* so reaches neither the endpoint nor the engine.
C5_NoCallbackAfterConnectionShutdown ==
    (last.op \in EventOps /\ last.stage_at \in {"shutting down", "destroyed"}) =>
        /\ last.conn_cb = "none"
        /\ last.engine_cb = "none"
        /\ last.delivered = <<>>

\* The transport of a Connection failed, its holder shut the Connection down
\* before the loop delivered the failure, and connection_lost then came with
\* the exception: the Connection had no error callback left to hand it to.
C5_Witness ==
    /\ last.op = "connection_lost"
    /\ last.errno = NoErrno
    /\ last.stage_at = "destroyed"
    /\ last.conn_cb = "none"
    /\ last.raised = "AttributeError"

PerConnectionOps ==
    EventOps \cup {"send", "fatal_error", "member_shutdown", "connection_shutdown"}

\* C6: determine_remote calls for the same host and port return distinct
\* Connections, and a send, a socket event or a shutdown of one Connection
\* leaves every other Connection (stage, socket, callbacks) as it was.
C6_ConnectionsDistinctAndIndependent ==
    [][ /\ \A i, j \in Returned' :
               i # j => calls'[i].protocol # calls'[j].protocol
        /\ last'.op \in PerConnectionOps =>
               \A d \in 1..Len(conns) : d # last'.conn => conns'[d] = conns[d]
      ]_vars

\* Two calls for the same sockaddr have returned; one Connection has just
\* been shut down and the other is still active.
C6_Witness ==
    /\ Returned = {1, 2}
    /\ calls[1].sockaddr = calls[2].sockaddr
    /\ calls[1].protocol # calls[2].protocol
    /\ last.op = "member_shutdown"
    /\ conns[last.conn].stage = "destroyed"
    /\ \E d \in ConnIds : conns[d].stage = "active" /\ conns[d].transport = "open"

\* C7: an unparsable datagram that reaches the endpoint's dispatch invokes no
\* engine callback, writes exactly one warning and changes no Connection, not
\* the registry and not the endpoint's callbacks; a well-formed datagram that
\* reaches the dispatch while the engine's callback is set is delivered.
C7_UnparsableDatagramOnlyLogged ==
    [][ /\ (last'.op = "datagram_unparsable" /\ last'.conn_cb = "message") =>
               /\ last'.engine_cb = "none"
               /\ last'.raised = "none"
               /\ engine' = engine
               /\ log' = log + 1
               /\ conns' = conns /\ pool' = pool /\ ep' = ep
        /\ (last'.op = "datagram" /\ last'.conn_cb = "message"
              /\ ep.new_message_callback) =>
               /\ last'.engine_cb = "message"
               /\ Len(engine') = Len(engine) + 1
               /\ log' = log
      ]_vars

\* A well-formed datagram is delivered on the only Connection there is, after
\* an unparsable one was dropped.
C7_Witness ==
    /\ Cardinality(ConnIds) = 1
    /\ log = 1
    /\ last.op = "datagram"
    /\ last.engine_cb = "message"
    /\ Len(engine) = 1

\* The request names no host: no host part in the unresolved remote (or no
\* unresolved remote) and no uri_host option.
YieldsNoHost(request) ==
    /\ request.unresolved_remote = None \/ hostname(request.unresolved_remote) = None
    /\ request.uri_host = None \/ request.uri_host = <<>>

\* C8: determine_remote on a request with a compatible scheme that names no
\* host raises ValueError, constructs no Connection and leaves the registry
\* alone.
C8_NoHostIsValueError ==
    [][ (/\ last'.op = "determine_remote"
         /\ last'.request.requested_scheme \in {"coap", NoScheme}
         /\ YieldsNoHost(last'.request)) =>
            /\ calls'[last'.call].pc = "done"
            /\ calls'[last'.call].result = "ValueError"
            /\ conns'[last'.call] = NoConn
            /\ pool' = pool
      ]_vars

\* The port a request specifies, NoPort when it specifies none.
SpecifiedPort(request) ==
    IF request.unresolved_remote # None
    THEN port(request.unresolved_remote)
    ELSE request.uri_port

\* C9: the sockaddr passed to connect comes from the unresolved remote when
\* there is one and from the uri_host / uri_port options otherwise; its port
\* is COAP_PORT when none is specified and the specified port otherwise.
C9_TargetPrecedenceAndPort ==
    (last.op = "determine_remote" /\ calls[last.call].pc = "connecting") =>
        LET request == last.request
            sockaddr == calls[last.call].sockaddr
        IN /\ sockaddr.host = IF request.unresolved_remote # None
                              THEN hostname(request.unresolved_remote)
                              ELSE request.uri_host
           /\ sockaddr.port = IF SpecifiedPort(request) = NoPort
                              THEN COAP_PORT
                              ELSE SpecifiedPort(request)

\* C10: determine_remote on a request whose scheme is neither coap nor
\* unspecified returns None, whatever destination the request carries,
\* constructs no Connection and leaves the registry alone.
C10_IncompatibleSchemeIsAbsent ==
    [][ (/\ last'.op = "determine_remote"
         /\ last'.request.requested_scheme \notin {"coap", NoScheme}) =>
            /\ calls'[last'.call].pc = "done"
            /\ calls'[last'.call].result = "absent"
            /\ conns' = Append(conns, NoConn)
            /\ pool' = pool
      ]_vars

\* A secured-scheme request that carries a usable destination is answered
\* with None while the registry holds a Connection.
C10_Witness ==
    /\ last.op = "determine_remote"
    /\ last.request.requested_scheme = "coaps"
    /\ last.request.unresolved_remote # None
    /\ hostname(last.request.unresolved_remote) # None
    /\ calls[last.call].result = "absent"
    /\ Len(pool.sockets) >= 1
    /\ ConnIds = Range(pool.sockets)

\* The step is the socket-level error event `op` on a Connection that still
\* holds its error callback, while the engine's error callback is registered.
ErrorEventOnLive(op) ==
    /\ last'.op = op
    /\ last'.errno # 0
    /\ conns[last'.conn].new_error_callback
    /\ ep.new_error_callback

\* The step leaves every Connection's stage and callbacks, the registry and
\* the endpoint as they were.
LifecycleUntouched ==
    /\ \A d \in 1..Len(conns) :
           /\ conns'[d].stage = conns[d].stage
           /\ conns'[d].new_message_callback = conns[d].new_message_callback
           /\ conns'[d].new_error_callback = conns[d].new_error_callback
    /\ Len(conns') = Len(conns)
    /\ pool' = pool /\ ep' = ep /\ sd' = sd

\* C11 as stated: a socket-level error on a Connection (error_received, or
\* connection_lost with an error) is forwarded to the engine's error callback
\* exactly once, as (error code, that Connection); it changes no Connection's
\* stage, not the registry, and does not shut the endpoint down.  A
\* connection_lost without an error invokes no callback at all.  (The
\* Connection holds its callbacks and the engine's callback is registered.)
C11_SocketErrorForwardedOnce ==
    [][ /\ (ErrorEventOnLive("error_received") \/ ErrorEventOnLive("connection_lost")) =>
               /\ last'.delivered =
                      <<[cb |-> "error", conn |-> last'.conn, arg |-> last'.errno]>>
               /\ engine' = Append(engine, [cb |-> "error", arg |-> last'.errno])
               /\ last'.raised = "none"
               /\ LifecycleUntouched
        /\ (last'.op = "connection_lost" /\ last'.errno = 0) =>
               /\ last'.conn_cb = "none"
               /\ last'.engine_cb = "none"
               /\ last'.delivered = <<>>
               /\ last'.raised = "none"
               /\ engine' = engine /\ log' = log
               /\ LifecycleUntouched
      ]_vars

\* C12: a connect whose socket never becomes ready adds nothing to the
\* registry and returns no Connection: when the creation of the socket fails
\* the call fails in that step with registry and Connections unchanged and is
\* never taken up again; while the ready signal has not fired the call stays
\* suspended, without result, its protocol outside the registry.
C12_UnreadyConnectNeverRegisters ==
    [][ \A i \in CallIds :
          /\ (calls[i].pc = "endpoint_wait" /\ ~calls[i].ready) =>
                 /\ calls'[i].pc = "endpoint_wait"
                 /\ calls'[i].result = "none"
                 /\ calls[i].protocol \notin Range(pool'.sockets)
          /\ (calls[i].result # "OSError" /\ calls'[i].result = "OSError") =>
                 /\ last'.raised = "OSError"
                 /\ calls'[i].pc = "done"
                 /\ pool' = pool /\ conns' = conns
                 /\ conns[i] = NoConn
          /\ calls[i].result = "OSError" =>
                 /\ calls'[i] = calls[i]
                 /\ conns'[i] = NoConn
                 /\ i \notin Range(pool'.sockets)
      ]_vars

\* One connect failed at socket creation, another is suspended on a socket
\* that is not ready, and the endpoint has meanwhile been shut down.
C12_Witness ==
    /\ \E i \in CallIds : calls[i].result = "OSError" /\ conns[i] = NoConn
    /\ \E j \in CallIds :
           /\ calls[j].pc = "endpoint_wait" /\ ~calls[j].ready
           /\ conns[calls[j].protocol].stage = "initializing"
    /\ sd.pc = "done"

\* The last operation was the arrival, unchanged, of the datagram a send had
\* just written to the same Connection's socket.
EchoArrived == last.op \in {"datagram", "datagram_unparsable"} /\ last.payload # 0

\* C13: a message for which determine_remote returned a Connection and which
\* is passed to send, when the peer sends the datagram back unchanged on that
\* Connection's socket, is delivered to the engine's message callback exactly
\* once, with the payload that was sent and that Connection as its remote
\* (while the endpoint's shutdown has not completed).
C13_EchoDeliveredOnceWithSameRemote ==
    (EchoArrived /\ sd.pc # "done") =>
        /\ last.op = "datagram"
        /\ last.conn \in {calls[i].protocol : i \in Returned}
        /\ last.raised = "none" /\ last.logged = 0
        /\ last.delivered =
               <<[cb |-> "message", conn |-> last.conn, arg |-> last.payload]>>
        /\ engine # <<>>
        /\ engine[Len(engine)] = [cb |-> "message", arg |-> last.payload]

\* The second of two returned Connections got its own datagram back and the
\* engine received the payload that was sent on it.
C13_Witness ==
    /\ EchoArrived
    /\ last.payload = 2
    /\ Returned = {1, 2}
    /\ last.conn = calls[2].protocol
    /\ last.delivered = <<[cb |-> "message", conn |-> last.conn, arg |-> 2]>>
    /\ engine = <<[cb |-> "message", arg |-> 2]>>
    /\ sd.pc = "idle"

\* C14: send writes exactly one datagram, the encoding of the message, to the
\* socket of the message's remote Connection and to no other; it does not
\* retry, creates no Connection and leaves the registry and every Connection
\* as they were.  (The one sendto call reaches the socket while the
\* transport is open; a transport that was aborted, has failed or has lost
\* its connection drops the datagram.  When the socket answers the one
\* datagram with an error pending on it, that error goes to the engine's
\* error callback once, inside send, and nothing is sent again.)
C14_SendWritesOneDatagram ==
    [][ last'.op = "send" =>
          /\ last'.conn = calls[last'.call].protocol
          /\ last'.stage_at = conns[last'.conn].stage
          /\ last'.sendto =
                 <<[conn |-> last'.conn, data |-> Encode(last'.payload)]>>
          /\ last'.written = IF conns[last'.conn].transport = "open"
                             THEN last'.sendto ELSE <<>>
          /\ conns' = conns /\ calls' = calls /\ pool' = pool
          /\ ep' = ep /\ sd' = sd /\ log' = log
          /\ last'.errno = 0 => (engine' = engine /\ last'.delivered = <<>>)
          /\ last'.errno # 0 =>
                 /\ Len(last'.written) = 1
                 /\ engine' = engine \o
                        [k \in 1..Len(last'.delivered) |->
                           [cb |-> last'.delivered[k].cb, arg |-> last'.delivered[k].arg]]
                 /\ last'.delivered =
                        IF ep.new_error_callback
                        THEN <<[cb |-> "error", conn |-> last'.conn, arg |-> last'.errno]>>
                        ELSE <<>>
      ]_vars

\* A message was sent on the second of two active Connections to the same
\* address: one datagram, on that Connection's socket.
C14_Witness ==
    /\ last.op = "send"
    /\ last.payload = 2
    /\ Returned = {1, 2}
    /\ calls[1].sockaddr = calls[2].sockaddr
    /\ last.conn = calls[2].protocol
    /\ conns[calls[1].protocol].stage = "active"
    /\ last.stage_at = "active"
    /\ last.errno = 0
    /\ Len(last.sendto) = 1
    /\ last.written = last.sendto
    /\ last.written[1].conn = last.conn

\* C15: the well-formed datagrams of a Connection reach the engine's message
\* callback in the order the socket delivers them, each exactly once: each is
\* handed over within its own event, after everything handed over before,
\* and nothing handed over is later moved, repeated or removed; an
\* unparsable datagram in between adds nothing.  (The Connection holds its
\* callbacks and the engine's message callback is registered.)
C15_DatagramsDeliveredInSocketOrder ==
    [][ /\ (last'.op = "datagram" /\ conns[last'.conn].new_message_callback
              /\ ep.new_message_callback) =>
               /\ last'.delivered = <<[cb |-> "message", conn |-> last'.conn,
                                       arg |-> Decode(last'.data)]>>
               /\ engine' = Append(engine, [cb |-> "message", arg |-> Decode(last'.data)])
        /\ last'.op = "datagram_unparsable" =>
               /\ last'.delivered = <<>>
               /\ engine' = engine
        /\ Len(engine') >= Len(engine)
        /\ \A k \in 1..Len(engine) : engine'[k] = engine[k]
        /\ last'.op \notin EventOps \cup {"send"} => engine' = engine
        /\ last'.op = "send" =>
               \A k \in 1..Len(last'.delivered) : last'.delivered[k].cb = "error"
      ]_vars

\* Datagrams with payload 2 and then payload 1 arrived on the only Connection:
\* the engine has them in that order.
C15_Witness ==
    /\ Cardinality(ConnIds) = 1
    /\ last.op = "datagram"
    /\ last.delivered = <<[cb |-> "message", conn |-> last.conn, arg |-> 1]>>
    /\ engine = <<[cb |-> "message", arg |-> 2], [cb |-> "message", arg |-> 1]>>

\* The host part of a hostinfo text for peer host h.
HostPart(h) ==
    IF \E k \in 1..Len(h) : h[k] = ":" THEN <<"[">> \o h \o <<"]">> ELSE h

\* C16: hostinfo leaves the port out exactly when the port of the
\* Connection's peer address is the default port 5683: it is then the host
\* alone, and host:port with the decimal port for every other port.
C16_HostinfoOmitsDefaultPort ==
    (last.op = "hostinfo" /\ last.raised = "none") =>
        LET peer == getpeername(conns[last.conn])
            host == HostPart(peer.host)
        IN /\ (last.text = host) <=> (peer.port = COAP_PORT)
           /\ peer.port # COAP_PORT =>
                  /\ Len(last.text) > Len(host) + 1
                  /\ SubSeq(last.text, 1, Len(host)) = host
                  /\ last.text[Len(host) + 1] = ":"
                  /\ SubSeq(last.text, Len(host) + 2, Len(last.text)) = str10(peer.port)

\* hostinfo was read on a Connection to the default port while another
\* Connection, to a port of its own, exists.
C16_Witness ==
    /\ last.op = "hostinfo"
    /\ last.raised = "none"
    /\ getpeername(conns[last.conn]).port = COAP_PORT
    /\ last.text = HostPart(getpeername(conns[last.conn]).host)
    /\ conns[last.conn].sockaddr.host \notin {None, getpeername(conns[last.conn]).host}
    /\ \E d \in ConnIds : conns[d].sockaddr.port \notin {COAP_PORT, 0}

StageRank(stage) ==
    CASE stage = "none" -> 0
      [] stage = "initializing" -> 1
      [] stage = "active" -> 2
      [] stage = "shutting down" -> 3
      [] stage = "destroyed" -> 4

\* In this step Connection c keeps to initializing -> active -> shutting down
\* -> destroyed.
StageMovesForward(c) ==
    /\ StageRank(conns'[c].stage) >= StageRank(conns[c].stage)
    /\ conns[c].stage = "destroyed" => conns'[c].stage = "destroyed"
    /\ conns[c].stage = "initializing" => conns'[c].stage \in {"initializing", "active"}
    /\ (conns'[c].stage \in {"shutting down", "destroyed"}
          /\ conns[c].stage \notin {"shutting down", "destroyed"}) =>
           conns[c].stage = "active"

\* The step is a shutdown of Connection c whose shutdown had begun before.
RepeatedShutdown(c) ==
    /\ last'.op \in {"member_shutdown", "connection_shutdown"}
    /\ last'.conn = c
    /\ last'.stage_at \in {"shutting down", "destroyed"}

\* C17 as stated: over any sequence of socket events and shutdown calls a
\* Connection's stage never moves backwards, never leaves destroyed and never
\* enters shutting down without having been active.
C17_StageNeverMovesBack ==
    [][ \A c \in 1..Len(conns) : StageMovesForward(c) ]_vars

\* C17 amended: the same, over any sequence of socket events and shutdown
\* calls in which no Connection's shutdown is called a second time; a second
\* call puts a destroyed Connection back to shutting down.
C17_StageNeverMovesBackUnlessShutdownRepeated ==
    [][ \A c \in 1..Len(conns) :
          /\ ~RepeatedShutdown(c) => StageMovesForward(c)
          /\ RepeatedShutdown(c) => conns'[c].stage = "shutting down"
      ]_vars

\* The holder of a Connection has shut it down, from active to destroyed,
\* while the endpoint runs on with another Connection still active.
C17_Witness ==
    /\ last.op = "connection_shutdown"
    /\ last.stage_at = "active"
    /\ conns[last.conn].stage = "destroyed"
    /\ \E d \in ConnIds : conns[d].stage = "active"
    /\ sd.pc = "idle"

\* C18: the ready callback of a Connection is issued exactly once, in
\* connection_made, when the transport of the connected socket is set; the
\* Connection gives the callback up in the same step, so it is never issued
\* again, and no message or error callback of a Connection runs before its
\* ready callback was issued.
C18_ReadyIssuedOnceBeforeAnyCallback ==
    [][ /\ \A i \in CallIds :
             /\ calls[i].ready => calls'[i].ready
             /\ (~calls[i].ready /\ calls'[i].ready) =>
                    /\ last'.op = "connection_made"
                    /\ last'.conn = i
                    /\ conns[i].ready_callback = i
                    /\ conns[i].transport = "none"
                    /\ conns'[i].transport = "open"
                    /\ conns'[i].ready_callback = 0
                    /\ \A j \in CallIds \ {i} : calls'[j].ready = calls[j].ready
        /\ \A c \in ConnIds :
             /\ conns[c].ready_callback = 0 =>
                    calls[c].ready /\ conns'[c].ready_callback = 0
             /\ last'.op = "connection_made" /\ last'.conn = c =>
                    ~calls[c].ready /\ calls'[c].ready
        /\ (last'.op \in EventOps /\ last'.conn_cb # "none") =>
               /\ calls[last'.conn].ready
               /\ conns[last'.conn].ready_callback = 0
      ]_vars

\* A datagram ran the message callback of a Connection whose ready callback
\* had been issued, while another Connection still waits for its own.
C18_Witness ==
    /\ last.op = "datagram"
    /\ last.conn_cb = "message"
    /\ calls[last.conn].ready
    /\ conns[last.conn].ready_callback = 0
    /\ \E d \in ConnIds : conns[d].stage = "initializing" /\ ~calls[d].ready

\* C19: whenever connect returns a Connection, the Connection is at that
\* moment in stage active and a member of the registry, which holds it
\* exactly once.
C19_ReturnedConnectionActiveAndRegisteredOnce ==
    (last.op = "connect_return" /\ last.raised = "none") =>
        /\ calls[last.call].result = "connection"
        /\ calls[last.call].protocol = last.conn
        /\ conns[last.conn].stage = "active"
        /\ pool.has_sockets
        /\ Cardinality({k \in 1..Len(pool.sockets) : pool.sockets[k] = last.conn}) = 1

\* The second connect returns its Connection while the endpoint's shutdown is
\* under way and the registry already holds the first.
C19_Witness ==
    /\ last.op = "connect_return"
    /\ last.raised = "none"
    /\ calls[last.call].result = "connection"
    /\ Len(pool.sockets) = 2
    /\ pool.sockets[2] = last.conn
    /\ sd.pc = "waiting"

\* C20: once the pool's shutdown has cleared the registry, the registry is
\* never there again and every connect that comes to its registration, begun
\* before or after, fails there with AttributeError instead of returning a
\* Connection.
C20_NoConnectReturnsAfterRegistryCleared ==
    sd.pc = "done" =>
        /\ ~pool.has_sockets
        /\ pool.sockets = <<>>
        /\ last.op = "connect_return" =>
               /\ last.raised = "AttributeError"
               /\ calls[last.call].result = "AttributeError"
               /\ calls[last.call].pc = "done"

\* After the shutdown a connect whose socket was ready came to its
\* registration and failed; an earlier connect had returned its Connection.
C20_Witness ==
    /\ sd.pc = "done"
    /\ last.op = "connect_return"
    /\ last.raised = "AttributeError"
    /\ conns[last.conn].stage = "active"
    /\ \E j \in CallIds : calls[j].result = "connection"

====
